---- MODULE Spec2Model ----
(***************************************************************************)
(* The three-stage link archiving pipeline of scripts/:                    *)
(*   find_new_links.py  (extract_links, main)                              *)
(*   archive_to_ipfs.py (IPFSUploader, main)                               *)
(*   update_links.py    (update_markdown_file, main)                       *)
(* Text is modelled as TLA+ strings (sequences of characters); the regular *)
(* expressions of the scripts are modelled by matchers that follow         *)
(* Python's leftmost, greedy, backtracking semantics character by          *)
(* character.                                                              *)
(***************************************************************************)
EXTENDS Naturals, Sequences, FiniteSets, TLC

VARIABLES
    \* ---- archive_to_ipfs.py ----
    env,           \* os.environ: which credentials are configured
    new_links,     \* new_links.json: <<>> when absent, else <<array>>
    ipfs_mappings, \* ipfs_mappings.json: <<>> when absent, else <<array>>
    pc,            \* position of the running script
    i,             \* index of the link main's loop is at
    file_path,     \* process_link's local file_path
    cid,           \* process_link's local cid
    mappings,      \* main's local mappings
    disk,          \* downloads/: the set of file paths that exist
    calls,         \* history: per link, the methods invoked for it, in order
    origin,        \* history: per appended mapping, the index of its link
    \* ---- find_new_links.py / update_links.py ----
    toks,          \* the tokens the scanned document was written from
    content,       \* the text of the document docs/a.md on disk
    modified_files,\* find_new_links.main: the files it scanned
    runs           \* how many times update_links.py has run

avars == <<env, new_links, ipfs_mappings, pc, i, file_path, cid, mappings,
           disk, calls, origin>>
dvars == <<toks, content, modified_files, runs>>
vars == <<env, new_links, ipfs_mappings, pc, i, file_path, cid, mappings,
          disk, calls, origin, toks, content, modified_files, runs>>

\* ------------------------------------------------------------------ bounds
MaxLinks == 2
MaxToks == 2
MaxRuns == 2
MaxContent == 320

\* ----------------------------------------------------------------- strings
\* Python's None where a str is expected; like "", it is falsy.
None == "<None>"

Truthy(x) == x # None /\ x # ""

At(s, k) == SubSeq(s, k, k)

\* sub in s
Contains(s, sub) ==
    \E k \in 1..(Len(s) + 1) :
        k + Len(sub) - 1 <= Len(s) /\ SubSeq(s, k, k + Len(sub) - 1) = sub

startswith(s, p) == Len(p) <= Len(s) /\ SubSeq(s, 1, Len(p)) = p

UpperCase == "ABCDEFGHIJKLMNOPQRSTUVWXYZ"
LowerCase == "abcdefghijklmnopqrstuvwxyz"

\* str.lower on one character: the table of the letters it changes
LowerTable ==
    [c \in {At(UpperCase, k) : k \in 1..Len(UpperCase)} |->
        At(LowerCase, CHOOSE k \in 1..Len(UpperCase) : At(UpperCase, k) = c)]

LowerChar(c) == IF c \in DOMAIN LowerTable THEN LowerTable[c] ELSE c

RECURSIVE lower(_)
lower(s) == IF s = "" THEN "" ELSE LowerChar(Head(s)) \o lower(Tail(s))

Whitespace == {" ", "\n", "\t", "\r"}

RECURSIVE lstrip(_)
lstrip(s) == IF s # "" /\ Head(s) \in Whitespace THEN lstrip(Tail(s)) ELSE s

RECURSIVE rstrip(_)
rstrip(s) ==
    IF s # "" /\ At(s, Len(s)) \in Whitespace
    THEN rstrip(SubSeq(s, 1, Len(s) - 1))
    ELSE s

strip(s) == rstrip(lstrip(s))

\* ------------------------------------------------- archive_to_ipfs.py: data
video_domains ==
    <<"youtube.com", "youtu.be", "vimeo.com", "dailymotion.com",
      "twitch.tv", "facebook.com/watch", "twitter.com", "x.com">>

is_video_url_cased(url) ==
    \E d \in 1..Len(video_domains) : Contains(url, video_domains[d])

is_video_url(url) ==
    LET u == lower(url)
    IN  \E d \in 1..Len(video_domains) : Contains(u, video_domains[d])

Gateway == "https://ipfs.io/ipfs/"

\* The mapping main appends for a link that obtained cid c.
MakeMappingNoCid(link, c) ==
    [file |-> link.file, original_url |-> link.url, ipfs_cid |-> c,
     ipfs_url |-> Gateway, text |-> link.text, type |-> link.type]

MakeMapping(link, c) ==
    [file |-> link.file, original_url |-> link.url, ipfs_cid |-> c,
     ipfs_url |-> Gateway \o c, text |-> link.text, type |-> link.type]

\* The LinkRecords the archiver is run on: a video host in mixed case, a
\* page whose host only contains a video domain ("x.com"), and a web page.
ArchLinks ==
    { [url |-> "https://YouTu.be/a", text |-> "demo", type |-> "markdown",
       file |-> "content/a.md"],
      [url |-> "https://b.io/p", text |-> "", type |-> "plain",
       file |-> "content/b.md"],
      [url |-> "https://box.com/p", text |-> "box", type |-> "markdown",
       file |-> "content/b.md"] }

RECURSIVE SeqsUpTo(_, _)
SeqsUpTo(S, n) ==
    IF n = 0 THEN {<<>>}
    ELSE LET shorter == SeqsUpTo(S, n - 1)
         IN  shorter \cup
             {Append(q, x) : q \in {r \in shorter : Len(r) = n - 1}, x \in S}

\* What the collaborators can answer.
DownloadVideoOutcomes == {"file", "nofile", "raise"}
DownloadWebpageOutcomes == {"file", "raise"}
PinataOutcomes == {"Qp", "raise"}
Web3Outcomes == {"Qw", "raise"}
LocalOutcomes == {"Ql\n", "\n", "CalledProcessError", "OSError"}

links == new_links[1]

\* The file name both download methods derive from the URL (its md5 prefix).
PathOf(url) == url

\* An exception that leaves the method (and, uncaught, the script).
Raised == "<raise>"

Entry(method, outcome, ret) == [m |-> method, out |-> outcome, r |-> ret]

Log(method, outcome, ret) ==
    [calls EXCEPT ![i] = Append(@, Entry(method, outcome, ret))]

Log2(e1, e2) == [calls EXCEPT ![i] = Append(Append(@, e1), e2)]

\* ---------------------------------------------- archive_to_ipfs.py: actions
ArchInit ==
    /\ env \in [pinata_api_key : BOOLEAN, pinata_secret : BOOLEAN,
                web3_token : BOOLEAN]
    /\ new_links \in {<<>>} \cup {<<ls>> : ls \in SeqsUpTo(ArchLinks, MaxLinks)}
    /\ ipfs_mappings = <<>>
    /\ pc = "main"
    /\ i = 0
    /\ file_path = None
    /\ cid = None
    /\ mappings = <<>>
    /\ disk = {}
    /\ calls = <<>>
    /\ origin = <<>>

\* main, lines 207-225: load new_links.json; nothing to do writes [].
main_load ==
    /\ pc = "main"
    /\ IF new_links = <<>> \/ links = <<>>
       THEN /\ ipfs_mappings' = <<(<<>>)>>
            /\ pc' = "done"
            /\ UNCHANGED <<i, mappings, calls>>
       ELSE /\ pc' = "process_link"
            /\ i' = 1
            /\ mappings' = <<>>
            /\ calls' = [k \in 1..Len(links) |-> <<>>]
            /\ UNCHANGED ipfs_mappings
    /\ UNCHANGED <<env, new_links, file_path, cid, disk, origin, dvars>>

\* main, lines 227-238: process_link returned c for links[i].
AppendsMappingAlways(c) == TRUE

AppendsMapping(c) == Truthy(c)

Return(c, log) ==
    /\ calls' = log
    /\ mappings' = IF AppendsMapping(c)
                   THEN Append(mappings, MakeMapping(links[i], c))
                   ELSE mappings
    /\ origin' = IF AppendsMapping(c) THEN Append(origin, i) ELSE origin
    /\ i' = i + 1
    /\ pc' = IF i < Len(links) THEN "process_link" ELSE "save"

\* process_link, line 166
DownloadFailedNoExists(fp, d) == fp = None

DownloadFailed(fp, d) == fp = None \/ fp \notin d

\* process_link, lines 157-170: one download path, then the existence check.
download ==
    /\ pc = "process_link"
    /\ LET url == links[i].url
           video == is_video_url(url)
       IN  \E out \in IF video THEN DownloadVideoOutcomes
                               ELSE DownloadWebpageOutcomes :
             LET fp == IF out = "raise" THEN None ELSE PathOf(url)
                 d == IF out = "file" THEN disk \cup {fp} ELSE disk
                 e1 == Entry(IF video THEN "download_video"
                                      ELSE "download_webpage", out, fp)
                 e2 == Entry("exists", "",
                             IF fp # None /\ fp \in d THEN "True" ELSE "False")
             IN  /\ disk' = d
                 /\ file_path' = fp
                 /\ IF DownloadFailed(fp, d)
                    THEN /\ Return(None, Log2(e1, e2))
                         /\ UNCHANGED cid
                    ELSE /\ cid' = None
                         /\ pc' = "pinata"
                         /\ calls' = Log2(e1, e2)
                         /\ UNCHANGED <<i, mappings, origin>>
    /\ UNCHANGED <<env, new_links, ipfs_mappings, dvars>>

\* process_link, line 176
TriesPinata(e) == e.pinata_api_key

\* upload_to_pinata, lines 101-129, called from lines 176-185
try_pinata ==
    /\ pc = "pinata"
    /\ IF TriesPinata(env)
       THEN IF ~env.pinata_api_key \/ ~env.pinata_secret
            THEN /\ cid' = None
                 /\ calls' = Log("upload_to_pinata", "", None)
            ELSE \E out \in PinataOutcomes :
                   /\ cid' = IF out = "raise" THEN None ELSE out
                   /\ calls' = Log("upload_to_pinata", out, cid')
       ELSE UNCHANGED <<cid, calls>>
    /\ pc' = "web3"
    /\ UNCHANGED <<env, new_links, ipfs_mappings, i, file_path, mappings, disk,
                   origin, dvars>>

\* process_link, line 188
TriesWeb3Always(c, e) == e.web3_token

TriesWeb3(c, e) == ~Truthy(c) /\ e.web3_token

\* upload_to_web3storage, lines 131-153, called from lines 188-191
try_web3 ==
    /\ pc = "web3"
    /\ IF TriesWeb3(cid, env)
       THEN IF ~env.web3_token
            THEN /\ cid' = None
                 /\ calls' = Log("upload_to_web3storage", "", None)
            ELSE \E out \in Web3Outcomes :
                   /\ cid' = IF out = "raise" THEN None ELSE out
                   /\ calls' = Log("upload_to_web3storage", out, cid')
       ELSE UNCHANGED <<cid, calls>>
    /\ pc' = "local"
    /\ UNCHANGED <<env, new_links, ipfs_mappings, i, file_path, mappings, disk,
                   origin, dvars>>

\* process_link, line 194
TriesLocalAlways(c) == TRUE

TriesLocal(c) == ~Truthy(c)

\* upload_to_ipfs_local, line 97: the exceptions its try statement catches
LocalCatches(out) == out = "CalledProcessError"

\* upload_to_ipfs_local, lines 86-99, called from lines 194-197
try_local ==
    /\ pc = "local"
    /\ IF TriesLocal(cid)
       THEN \E out \in LocalOutcomes :
              IF out \in {"CalledProcessError", "OSError"}
              THEN IF LocalCatches(out)
                   THEN /\ cid' = None
                        /\ calls' = Log("upload_to_ipfs_local", out, None)
                        /\ pc' = "unlink"
                   ELSE /\ calls' = Log("upload_to_ipfs_local", out, Raised)
                        /\ pc' = "raised"
                        /\ UNCHANGED cid
              ELSE /\ cid' = strip(out)
                   /\ calls' = Log("upload_to_ipfs_local", out, cid')
                   /\ pc' = "unlink"
       ELSE /\ pc' = "unlink"
            /\ UNCHANGED <<cid, calls>>
    /\ UNCHANGED <<env, new_links, ipfs_mappings, i, file_path, mappings, disk,
                   origin, dvars>>

\* process_link, lines 199-205, and its return to main's loop
cleanup ==
    /\ pc = "unlink"
    /\ \E out \in {"ok", "error"} :
         /\ disk' = IF out = "ok" THEN disk \ {file_path} ELSE disk
         /\ Return(cid, Log("unlink", out, None))
    /\ UNCHANGED <<env, new_links, ipfs_mappings, file_path, cid, dvars>>

\* main, lines 240-244
save ==
    /\ pc = "save"
    /\ ipfs_mappings' = <<mappings>>
    /\ pc' = "done"
    /\ UNCHANGED <<env, new_links, i, file_path, cid, mappings, disk, calls,
                   origin, dvars>>

Init ==
    /\ ArchInit
    /\ toks = <<>>
    /\ content = ""
    /\ modified_files = <<>>
    /\ runs = 0

Next ==
    \/ main_load
    \/ download
    \/ try_pinata
    \/ try_web3
    \/ try_local
    \/ cleanup
    \/ save

Spec == Init /\ [][Next]_vars

\* ------------------------------------------------------ find_new_links.py
\* The least element of a set of positions, or 0 when there is none.
First(S) == IF S = {} THEN 0 ELSE CHOOSE x \in S : \A y \in S : x <= y

\* The first index j >= k with s[j] = c, or 0.
IndexFrom(s, c, k) == First({j \in k..Len(s) : At(s, j) = c})

\* A match of \[([^\]]+)\]\(([^\)]+)\) starting at k: <<text, url, end>>, or
\* <<>>. Both classes are greedy up to the first closing character.
MarkdownMatchAt(s, k) ==
    IF k > Len(s) \/ At(s, k) # "[" THEN <<>>
    ELSE LET q == IndexFrom(s, "]", k + 1)
         IN  IF q = 0 \/ q = k + 1 \/ q + 1 > Len(s) THEN <<>>
             ELSE IF At(s, q + 1) # "(" THEN <<>>
             ELSE LET r == IndexFrom(s, ")", q + 2)
                  IN  IF r = 0 \/ r = q + 2 THEN <<>>
                      ELSE <<SubSeq(s, k + 1, q - 1),
                             SubSeq(s, q + 2, r - 1), r>>

\* re.findall of the markdown pattern: the <<text, url>> pairs, leftmost
\* first, without overlap.
RECURSIVE markdown_links_from(_, _)
markdown_links_from(s, k) ==
    LET j == First({x \in k..Len(s) : MarkdownMatchAt(s, x) # <<>>})
        mt == MarkdownMatchAt(s, j)
    IN  IF j = 0 THEN <<>>
        ELSE <<(<<mt[1], mt[2]>>)>> \o markdown_links_from(s, mt[3] + 1)

\* The last index of the run of [^\s\)] characters starting at k (k - 1 when
\* the run is empty).
RunEnd(s, k) ==
    LET stop == First({j \in k..Len(s) :
                          At(s, j) \in Whitespace \/ At(s, j) = ")"})
    IN  IF stop = 0 THEN Len(s) ELSE stop - 1

HasAt(s, k, p) == k + Len(p) - 1 <= Len(s) /\ SubSeq(s, k, k + Len(p) - 1) = p

\* A match of (?<!\()(https?://[^\s\)]+)(?!\)) starting at k: its last
\* index, or 0. The greedy run gives back one character when a ")" follows.
PlainMatchAtNoLookbehind(s, k) ==
    LET plen == IF HasAt(s, k, "https://") THEN 8
                ELSE IF HasAt(s, k, "http://") THEN 7 ELSE 0
        e == RunEnd(s, k + plen)
    IN  IF plen = 0 THEN 0
        ELSE IF e < k + plen THEN 0
        ELSE IF e < Len(s) /\ At(s, e + 1) = ")"
             THEN (IF e - 1 >= k + plen THEN e - 1 ELSE 0)
        ELSE e

PlainMatchAt(s, k) ==
    IF k > 1 /\ At(s, k - 1) = "(" THEN 0 ELSE PlainMatchAtNoLookbehind(s, k)

RECURSIVE plain_urls_from(_, _)
plain_urls_from(s, k) ==
    LET j == First({x \in k..Len(s) : PlainMatchAt(s, x) # 0})
        e == PlainMatchAt(s, j)
    IN  IF j = 0 THEN <<>>
        ELSE <<SubSeq(s, j, e)>> \o plain_urls_from(s, e + 1)

InSeq(x, q) == \E k \in 1..Len(q) : q[k] = x

RECURSIVE MarkdownRecords(_)
MarkdownRecords(md) ==
    IF md = <<>> THEN <<>>
    ELSE (IF startswith(Head(md)[2], "http")
          THEN << [url |-> Head(md)[2], text |-> Head(md)[1],
                   type |-> "markdown"] >>
          ELSE <<>>)
         \o MarkdownRecords(Tail(md))

RECURSIVE PlainRecordsNoDedup(_, _)
PlainRecordsNoDedup(plain, markdown_urls) ==
    IF plain = <<>> THEN <<>>
    ELSE << [url |-> Head(plain), text |-> "", type |-> "plain"] >>
         \o PlainRecordsNoDedup(Tail(plain), markdown_urls)

RECURSIVE PlainRecords(_, _)
PlainRecords(plain, markdown_urls) ==
    IF plain = <<>> THEN <<>>
    ELSE (IF ~InSeq(Head(plain), markdown_urls)
          THEN << [url |-> Head(plain), text |-> "", type |-> "plain"] >>
          ELSE <<>>)
         \o PlainRecords(Tail(plain), markdown_urls)

\* extract_links, lines 44-74, on the text of the file
extract_links(s) ==
    LET markdown_links == markdown_links_from(s, 1)
        plain_urls == plain_urls_from(s, 1)
        markdown_urls == [k \in 1..Len(markdown_links) |-> markdown_links[k][2]]
    IN  MarkdownRecords(markdown_links) \o PlainRecords(plain_urls, markdown_urls)

\* --------------------------------------------------------- update_links.py
\* re.sub(re.escape(pat), repl, s): every occurrence of the literal pat,
\* leftmost first, without overlap. (repl holds no backslash: the alphabet
\* of the documents has none, so the template is the literal text.)
sub_literal_first(s, k, pat, repl) ==
    LET j == First({x \in k..Len(s) : HasAt(s, x, pat)})
    IN  IF j = 0 THEN SubSeq(s, k, Len(s))
        ELSE SubSeq(s, k, j - 1) \o repl \o SubSeq(s, j + Len(pat), Len(s))

RECURSIVE sub_literal(_, _, _, _)
sub_literal(s, k, pat, repl) ==
    LET j == First({x \in k..Len(s) : HasAt(s, x, pat)})
    IN  IF j = 0 THEN SubSeq(s, k, Len(s))
        ELSE SubSeq(s, k, j - 1) \o repl
             \o sub_literal(s, j + Len(pat), pat, repl)

\* A match of (?<!\]\()(u)(?!\)) starting at k
PlainPatternAt(s, k, u) ==
    /\ HasAt(s, k, u)
    /\ ~(k > 2 /\ SubSeq(s, k - 2, k - 1) = "](")
    /\ ~HasAt(s, k + Len(u), ")")

\* re.sub of (?<!\]\()(u)(?!\)) by repl
RECURSIVE sub_plain(_, _, _, _)
sub_plain(s, k, u, repl) ==
    LET j == First({x \in k..Len(s) : PlainPatternAt(s, x, u)})
    IN  IF j = 0 THEN SubSeq(s, k, Len(s))
        ELSE SubSeq(s, k, j - 1) \o repl \o sub_plain(s, j + Len(u), u, repl)

\* update_markdown_file, lines 29 and 46: the replacement texts
markdown_replacement_option2(original_url, ipfs_url) ==
    "](" \o ipfs_url \o ")"

markdown_replacement(original_url, ipfs_url) ==
    "](" \o original_url \o ") ([IPFS](" \o ipfs_url \o "))"

plain_replacement(original_url, ipfs_url) ==
    original_url \o " ([IPFS](" \o ipfs_url \o "))"

\* update_markdown_file, lines 17-55: one mapping applied to the content
apply_mapping(s, mapping) ==
    IF mapping.type = "markdown"
    THEN sub_literal(s, 1, "](" \o mapping.original_url \o ")",
                     markdown_replacement(mapping.original_url,
                                          mapping.ipfs_url))
    ELSE sub_plain(s, 1, mapping.original_url,
                   plain_replacement(mapping.original_url, mapping.ipfs_url))

\* update_markdown_file, lines 9-64: the new content of the file
RECURSIVE update_markdown_file_once(_, _)
update_markdown_file_once(s, ms) ==
    IF ms = <<>> THEN s
    ELSE LET m == Head(ms)
             t == IF Contains(s, " ([IPFS](" \o m.ipfs_url \o "))")
                  THEN s ELSE apply_mapping(s, m)
         IN  update_markdown_file_once(t, Tail(ms))

RECURSIVE update_markdown_file(_, _)
update_markdown_file(s, ms) ==
    IF ms = <<>> THEN s
    ELSE LET t == apply_mapping(s, Head(ms))
         IN  update_markdown_file(t, Tail(ms))

\* ------------------------------------------------------------ the pipeline
DocFile == "docs/a.md"

\* What a document is written from: src is the text of the token, md the
\* targets of the markdown links its author wrote in it, bare the bare URLs.
Tokens ==
    { [src |-> "[t](http://a)", md |-> <<"http://a">>, bare |-> <<>>],
      [src |-> "[http://a](http://a)", md |-> <<"http://a">>,
       bare |-> <<"http://a">>],
      [src |-> "[g](https://ipfs.io/ipfs/Q)",
       md |-> <<"https://ipfs.io/ipfs/Q">>, bare |-> <<>>],
      [src |-> "http://a", md |-> <<>>, bare |-> <<"http://a">>],
      [src |-> "http://b", md |-> <<>>, bare |-> <<"http://b">>],
      [src |-> "(http://b)", md |-> <<>>, bare |-> <<"http://b">>] }

\* The text of a document: its tokens, separated by blanks.
RECURSIVE Render(_)
Render(ts) ==
    IF ts = <<>> THEN ""
    ELSE IF Len(ts) = 1 THEN ts[1].src
    ELSE ts[1].src \o " " \o Render(Tail(ts))

\* What process_link can return to main, or raise.
ProcessLinkResults == {None, "Q", "R", Raised}

\* find_new_links.main, lines 121-123
RECURSIVE TagFile(_, _)
TagFile(ls, f) ==
    IF ls = <<>> THEN <<>>
    ELSE << [url |-> Head(ls).url, text |-> Head(ls).text,
             type |-> Head(ls).type, file |-> f] >> \o TagFile(Tail(ls), f)

\* archive_to_ipfs.main, lines 225-238, given what process_link returned
RECURSIVE RunMain(_, _, _)
RunMain(ls, res, k) ==
    IF k > Len(ls) THEN <<>>
    ELSE (IF AppendsMapping(res[k]) THEN <<MakeMapping(ls[k], res[k])>>
          ELSE <<>>)
         \o RunMain(ls, res, k + 1)

\* update_links.main, lines 80-85: the mappings grouped under file f
RECURSIVE MappingsOf(_, _)
MappingsOf(ms, f) ==
    IF ms = <<>> THEN <<>>
    ELSE (IF Head(ms).file = f THEN <<Head(ms)>> ELSE <<>>)
         \o MappingsOf(Tail(ms), f)

PipeInit ==
    /\ toks \in SeqsUpTo(Tokens, MaxToks)
    /\ content = Render(toks)
    /\ modified_files = <<>>
    /\ new_links = <<>>
    /\ ipfs_mappings = <<>>
    /\ pc = "find_new_links"
    /\ runs = 0
    /\ env = [pinata_api_key |-> FALSE, pinata_secret |-> FALSE,
              web3_token |-> FALSE]
    /\ i = 0
    /\ file_path = None
    /\ cid = None
    /\ mappings = <<>>
    /\ disk = {}
    /\ calls = <<>>
    /\ origin = <<>>

\* find_new_links.main, lines 101-136
find_new_links ==
    /\ pc = "find_new_links"
    /\ \E mf \in {<<>>, <<DocFile>>} :
         /\ modified_files' = mf
         /\ new_links' = IF mf = <<>> THEN <<(<<>>)>>
                         ELSE <<TagFile(extract_links(content), DocFile)>>
    /\ pc' = "archive_to_ipfs"
    /\ UNCHANGED <<env, ipfs_mappings, i, file_path, cid, mappings, disk,
                   calls, origin, toks, content, runs>>

\* archive_to_ipfs.main, lines 207-244, over what process_link returns
archive_to_ipfs ==
    /\ pc = "archive_to_ipfs"
    /\ \E res \in [1..Len(links) -> ProcessLinkResults] :
         IF \E k \in 1..Len(links) : res[k] = Raised
         THEN /\ pc' = "failed"
              /\ UNCHANGED ipfs_mappings
         ELSE /\ pc' = "update_links"
              /\ ipfs_mappings' = <<RunMain(links, res, 1)>>
    /\ UNCHANGED <<env, new_links, i, file_path, cid, mappings, disk, calls,
                   origin, dvars>>

\* update_links.main, lines 66-94 (run again by hand up to MaxRuns times, as
\* long as the document has not grown beyond MaxContent characters)
update_links ==
    /\ pc = "update_links"
    /\ runs < MaxRuns
    /\ Len(content) <= MaxContent
    /\ runs' = runs + 1
    /\ content' = IF ipfs_mappings = <<>> THEN content
                  ELSE update_markdown_file(
                           content, MappingsOf(ipfs_mappings[1], DocFile))
    /\ UNCHANGED <<env, new_links, ipfs_mappings, pc, i, file_path, cid,
                   mappings, disk, calls, origin, toks, modified_files>>

PipeNext ==
    \/ find_new_links
    \/ archive_to_ipfs
    \/ update_links

Pipeline == PipeInit /\ [][PipeNext]_vars

\* ------------------------------------------------ claims on the archiver
UploadMethods ==
    {"upload_to_pinata", "upload_to_web3storage", "upload_to_ipfs_local"}

UploadErrors == {"raise", "CalledProcessError", "OSError"}

\* The positions of link k's log that hold a call of one of the methods ms.
Pos(k, ms) == {p \in 1..Len(calls[k]) : calls[k][p].m \in ms}

\* The upload calls of link k that returned an identifier.
Yielded(k) ==
    {p \in Pos(k, UploadMethods) :
        Truthy(calls[k][p].r) /\ calls[k][p].r # Raised}

\* process_link found a downloaded file for link k / found none.
Downloaded(k) == \E p \in Pos(k, {"exists"}) : calls[k][p].r = "True"
NoDownload(k) == \E p \in Pos(k, {"exists"}) : calls[k][p].r = "False"

\* process_link has returned for link k.
Returned(k) == k < i

\* C1: the upload backends of a downloaded link are attempted in the order
\* upload_to_pinata, upload_to_web3storage, upload_to_ipfs_local and the
\* chain stops at the first identifier: web3storage is invoked only with its
\* token configured and no identifier from Pinata, the local daemon only
\* with no identifier from either; once the chain is through, each backend
\* was invoked exactly when its turn came without an identifier.
C1_UploadOrder ==
    \A k \in 1..Len(calls) :
        LET L == calls[k]
            A == Pos(k, {"upload_to_pinata"})
            B == Pos(k, {"upload_to_web3storage"})
            C == Pos(k, {"upload_to_ipfs_local"})
        IN  /\ Cardinality(A) <= 1 /\ Cardinality(B) <= 1 /\ Cardinality(C) <= 1
            /\ \A a \in A, b \in B : a < b
            /\ \A b \in A \cup B, c \in C : b < c
            /\ \A p \in Pos(k, UploadMethods) : Downloaded(k)
            /\ \A p \in Yielded(k) : \A q \in Pos(k, UploadMethods) : q <= p
            /\ B # {} => env.web3_token /\ \A a \in A : ~Truthy(L[a].r)
            /\ C # {} => \A q \in A \cup B : ~Truthy(L[q].r)
            /\ Pos(k, {"unlink"}) # {} =>
                 /\ A # {} <=> env.pinata_api_key
                 /\ B # {} <=> (env.web3_token /\ \A a \in A : ~Truthy(L[a].r))
                 /\ C # {} <=> \A q \in A \cup B : ~Truthy(L[q].r)

\* C1 witness: only Pinata is configured, it returned an identifier for a
\* link, and the run ended with neither other backend invoked for that link.
C1_Witness ==
    /\ pc = "done"
    /\ env.pinata_api_key /\ env.pinata_secret /\ ~env.web3_token
    /\ \E k \in 1..Len(calls) :
         /\ \E p \in Pos(k, {"upload_to_pinata"}) : calls[k][p].r = "Qp"
         /\ Pos(k, {"upload_to_web3storage", "upload_to_ipfs_local"}) = {}
         /\ k \in {origin[j] : j \in 1..Len(origin)}

\* The link process_link has just finished with (returned, or raised).
JustFinished ==
    IF pc = "raised" THEN {i}
    ELSE IF pc \in {"process_link", "save"} /\ i > 1 THEN {i - 1}
    ELSE {}

\* C2: when process_link finishes with a link whose download succeeded, the
\* downloaded file is gone, whatever the uploads did; if every upload
\* failed, the link has no MappingRecord either.
C2_FileRemoved ==
    \A k \in JustFinished :
        Downloaded(k) =>
            /\ PathOf(links[k].url) \notin disk
            /\ Yielded(k) = {} => k \notin {origin[j] : j \in 1..Len(origin)}

\* C3: an upload attempt that raises is caught and yields no identifier,
\* the script does not stop on it, and a run that ends has written the
\* mappings file.
C3_UploadErrorsNonFatal ==
    /\ \A k \in 1..Len(calls) :
         \A p \in Pos(k, UploadMethods) :
             calls[k][p].out \in UploadErrors => calls[k][p].r = None
    /\ pc # "raised"
    /\ pc = "done" => ipfs_mappings # <<>>

\* The URLs of ArchLinks whose lowercased text contains a video domain.
VideoUrls ==
    {l.url : l \in {x \in ArchLinks :
                       \E d \in 1..Len(video_domains) :
                           Contains(lower(x.url), video_domains[d])}}

\* C4: a link that process_link has started on has exactly one download
\* call, download_video if the lowercased URL contains a video domain and
\* download_webpage otherwise, and it is the first thing done for the link.
C4_OneDownloadPath ==
    \A k \in 1..Len(calls) :
        LET D == Pos(k, {"download_video", "download_webpage"})
            isVideo == links[k].url \in VideoUrls
        IN  /\ Cardinality(D) <= 1
            /\ calls[k] # <<>> =>
                 /\ D = {1}
                 /\ calls[k][1].m = IF isVideo THEN "download_video"
                                               ELSE "download_webpage"
            /\ k < i => calls[k] # <<>>

\* C4 witness: a finished run over a video link in mixed case whose
\* download failed (and was not retried) and a webpage link.
C4_Witness ==
    /\ pc = "done"
    /\ Len(calls) = 2
    /\ links[1].url = "https://YouTu.be/a"
    /\ calls[1][1] = Entry("download_video", "raise", None)
    /\ Len(calls[1]) = 2
    /\ calls[2][1].m = "download_webpage"

\* C5: a link whose download reported no file gets no upload call, no
\* unlink and no MappingRecord; process_link returns for it instead of
\* raising, so main's loop moves on, and a run in which no download
\* produced a file ends with the mappings file written.
C5_DownloadFailure ==
    /\ \A k \in 1..Len(calls) :
         (calls[k] # <<>> /\ (calls[k][1].r = None \/ NoDownload(k))) =>
             /\ Len(calls[k]) = 2
             /\ Pos(k, UploadMethods \cup {"unlink"}) = {}
             /\ k \notin {origin[j] : j \in 1..Len(origin)}
             /\ Returned(k)
    /\ (\A k \in 1..Len(calls) : ~Downloaded(k)) =>
         /\ pc # "raised"
         /\ pc = "done" => ipfs_mappings = <<(<<>>)>>

\* C5 witness: the first link's download failed, the second link was still
\* archived, and the mappings file was written with the second link only.
C5_Witness ==
    /\ pc = "done"
    /\ Len(calls) = 2
    /\ calls[1][1].r = None
    /\ origin = <<2>>
    /\ ipfs_mappings = <<mappings>>
    /\ Len(mappings) = 1

\* The identifier link k obtained according to the log of its calls.
ObtainedCid(k) ==
    IF Yielded(k) = {} THEN None
    ELSE calls[k][CHOOSE p \in Yielded(k) : TRUE].r

RECURSIVE ExpectedMappings(_)
ExpectedMappings(k) ==
    IF k > Len(calls) THEN <<>>
    ELSE (IF ObtainedCid(k) = None THEN <<>>
          ELSE << [file |-> links[k].file,
                   original_url |-> links[k].url,
                   ipfs_cid |-> ObtainedCid(k),
                   ipfs_url |-> "https://ipfs.io/ipfs/" \o ObtainedCid(k),
                   text |-> links[k].text,
                   type |-> links[k].type] >>)
         \o ExpectedMappings(k + 1)

\* C6: the mappings array a run writes holds, in the order of the links,
\* exactly one record per link that obtained an identifier, copying file,
\* url, text and type and with ipfs_url the gateway prefix followed by the
\* identifier; it is never longer than the list of links.
C6_MappingsPerIdentifier ==
    ipfs_mappings # <<>> =>
        /\ ipfs_mappings[1] = ExpectedMappings(1)
        /\ Len(ipfs_mappings[1]) <= (IF new_links = <<>> THEN 0 ELSE Len(links))
        /\ \A j \in 1..Len(origin) : ObtainedCid(origin[j]) # None
        /\ \A j \in 1..(Len(origin) - 1) : origin[j] < origin[j + 1]

\* C6 witness: of two links that were both downloaded, the first obtained
\* no identifier and the second did; the written array holds one record.
C6_Witness ==
    /\ pc = "done"
    /\ Len(calls) = 2
    /\ Downloaded(1) /\ Downloaded(2)
    /\ ObtainedCid(1) = None
    /\ ObtainedCid(2) = "Ql"
    /\ Len(ipfs_mappings[1]) = 1


\* ------------------------------------------------ claims on the pipeline
\* The mappings update_links.py applies to the document.
ms == IF ipfs_mappings = <<>> THEN <<>>
      ELSE MappingsOf(ipfs_mappings[1], DocFile)

Marker == " ([IPFS]("
Ann(c) == Marker \o Gateway \o c \o "))"
Cids == {"Q", "R"}
Occ(s, p) == {k \in 1..Len(s) : HasAt(s, k, p)}
Count(s, p) == Cardinality(Occ(s, p))

\* How many archive annotations stand in a row from position k of s.
RECURSIVE AnnotationsAt(_, _)
AnnotationsAt(s, k) ==
    IF \E c \in Cids : HasAt(s, k, Ann(c))
    THEN 1 + AnnotationsAt(s, k + Len(Ann("Q")))
    ELSE 0

\* What the author wrote: the markdown targets and the counts N and M.
MdTargets(ts) == {ts[k].md[1] : k \in {j \in 1..Len(ts) : ts[j].md # <<>>}}
NMarkdown(ts) == Cardinality({k \in 1..Len(ts) : ts[k].md # <<>>})
NBare(ts) ==
    Cardinality({k \in 1..Len(ts) :
                    ts[k].bare # <<>> /\ ts[k].bare[1] \notin MdTargets(ts)})
NOfType(recs, t) == Cardinality({k \in 1..Len(recs) : recs[k].type = t})

Scanned == pc # "find_new_links" /\ modified_files = <<DocFile>>

\* C7: a document written with N markdown links and M bare URLs that are no
\* markdown target yields exactly N + M records, N markdown and M plain, and
\* no plain record for a URL that is a markdown target.
C7_ExtractCounts ==
    Scanned =>
        /\ Len(links) = NMarkdown(toks) + NBare(toks)
        /\ NOfType(links, "markdown") = NMarkdown(toks)
        /\ NOfType(links, "plain") = NBare(toks)
        /\ \A k \in 1..Len(links) :
             links[k].type = "plain" => links[k].url \notin MdTargets(toks)

\* The markdown records of the document as it was before the rewriter ran.
OriginalRecords == extract_links(Render(toks))

OneMarkdownMapping == Len(ms) = 1 /\ ms[1].type = "markdown"

\* C8: after one run of the rewriter with one markdown mapping of u to c,
\* every link [text](u) of the document is still there, directly followed
\* by the annotation for c, and extract_links still returns its record.
C8_RoundTrip ==
    (runs = 1 /\ OneMarkdownMapping) =>
        \A k \in 1..Len(OriginalRecords) :
            LET rec == OriginalRecords[k]
            IN  (rec.type = "markdown" /\ rec.url = ms[1].original_url) =>
                  /\ ms[1].ipfs_url = Gateway \o ms[1].ipfs_cid
                  /\ Contains(content,
                              "[" \o rec.text \o "](" \o rec.url \o ")"
                                  \o Ann(ms[1].ipfs_cid))
                  /\ InSeq(rec, extract_links(content))
                  /\ NOfType(extract_links(content), "markdown")
                         >= NOfType(OriginalRecords, "markdown")

C8_Witness ==
    /\ runs = 1
    /\ OneMarkdownMapping
    /\ ms[1].text = "t"
    /\ Contains(content, "[t](http://a)" \o Ann("R"))
    /\ Len(toks) = 2

\* The text a mapping's substitution looks for.
Target(m) ==
    IF m.type = "markdown" THEN "](" \o m.original_url \o ")"
    ELSE m.original_url

SelfReference(q) ==
    \E a \in 1..Len(q), b \in 1..Len(q) :
        q[a].type = "markdown" /\ q[a].original_url = q[b].ipfs_url

SecondRun == runs = 1 /\ runs' = 2 /\ content # Render(toks)

\* C9: a second run of the rewriter with the same mappings over the document
\* the first run annotated changes it again: there are more annotations
\* than before, and with a single mapping the target is followed by its
\* annotation and directly by the start of a second one (by two whole
\* annotations when the mapping does not point at its own gateway URL).
C9_NotIdempotent ==
    [][ SecondRun =>
          /\ content' # content
          /\ Count(content', Marker) > Count(content, Marker)
          /\ Len(ms) = 1 =>
               /\ Count(content', Marker) >= 2 * Count(content, Marker)
               /\ Contains(content',
                           Target(ms[1]) \o Ann(ms[1].ipfs_cid)
                               \o Marker \o ms[1].ipfs_url \o ")")
               /\ ~SelfReference(ms) =>
                    Contains(content',
                             Target(ms[1]) \o Ann(ms[1].ipfs_cid)
                                 \o Ann(ms[1].ipfs_cid)) ]_vars

C9_Witness ==
    /\ runs = 2
    /\ Len(ms) = 2
    /\ Contains(content, "[t](http://a)" \o Ann("Q") \o Ann("Q"))
    /\ Contains(content, "http://b" \o Ann("R") \o Ann("R"))

MarkdownFor(q, u) ==
    {k \in 1..Len(q) : q[k].type = "markdown" /\ q[k].original_url = u}

\* The links to u: the occurrences of ](u) outside an annotation.
LinkOcc(s, pat) ==
    {k \in Occ(s, pat) : ~(k > 5 /\ SubSeq(s, k - 5, k - 1) = "[IPFS")}

\* Every link to u stands before exactly as many annotations as there are
\* markdown mappings for u, and when all mappings are markdown mappings for
\* u the document holds that many annotations per link (k * k when each of
\* the k links has its mapping).
ExactlyM(s, q) ==
    \A a \in 1..Len(q) :
        q[a].type = "markdown" =>
            LET u == q[a].original_url
                pat == "](" \o u \o ")"
                m == Cardinality(MarkdownFor(q, u))
            IN  /\ \A k \in LinkOcc(s, pat) :
                      AnnotationsAt(s, k + Len(pat)) = m
                /\ m = Len(q) =>
                     Count(s, Marker) = m * Cardinality(LinkOcc(s, pat))

\* C10 as stated: after one pipeline run every link to u is followed by
\* exactly m annotations, m the number of markdown mappings for u.
C10_Original == runs = 1 => ExactlyM(content, ms)

\* C10: the same, for mappings none of which maps a markdown target to the
\* gateway URL that is itself the target of a mapped markdown link.
C10_AnnotationsPerOccurrence ==
    (runs = 1 /\ ~SelfReference(ms)) => ExactlyM(content, ms)

C10_Witness ==
    /\ runs = 1
    /\ Len(ms) = 2
    /\ ~SelfReference(ms)
    /\ Count(content, "](http://a)") = 2
    /\ Count(content, Marker) = 4
    /\ Contains(content, "[t](http://a)" \o Ann("R") \o Ann("Q") \o " [")

====
